---- MODULE Spec2Model ----
(***************************************************************************)
(* LinkedIn Job Suitability Analyzer.                                      *)
(*                                                                         *)
(* Two programs share the durable stores:                                  *)
(*   - the analyzer (src/unnamed/part_000, run()), which classifies the    *)
(*     record files that have no entry in results.json (the Ledger);       *)
(*   - the scraper (src/src/linkedin-scraper.ts, scrapeLinkedInJobs()),    *)
(*     which walks a paginated listing and writes one record file per      *)
(*     list item.                                                          *)
(* Spec is the analyzer, ScraperSpec the scraper.                          *)
(***************************************************************************)
EXTENDS Integers, Sequences, FiniteSets, TLC

\* ----------------------------------------------------------------- bounds
\* Record files <id>.txt the analyzer's directory may hold.
MaxFiles == 3
\* Analysis runs in one behaviour.
MaxRuns == 2
\* Record files of the first run whose last save is looked at on its own.
MaxLedger == 8

\* ------------------------------------------------------------ the analyzer
VARIABLES
    jobPostings,    \* the *.txt files of the analyzer's job-postings directory
    resultsFile,    \* results.json: absent, written, or torn by a write that was
                    \* killed or failed
    summaryFile,    \* summary.txt
    topMatchesFile, \* top-matches.txt
    pc,             \* where run() is
    cache,          \* run(): cache, an object keyed by file name (insertion order)
    jobsToAnalyze,  \* run(): jobsToAnalyze
    i,              \* run(): loop index (1-based here)
    successCount,   \* run(): successCount
    errorCount,     \* run(): errorCount
    resumeRead,     \* what readResume() found in this run ("none": not reached)
    \* history variables
    runNo,          \* runs started so far
    calls,          \* files passed to analyzeJobSuitability in this run, in order
    ledgerAtStart,  \* identifiers in results.json when this run started
    catchItems,     \* files whose processing ended in the catch branch, this run
    nCommitted,     \* saveAnalysisCache calls completed in the loop of this run
    lastKill,       \* the run killed last with no failed item and items left, while
                    \* the directory is as that run saw it
    resumeOf        \* the killed run this run follows, if any

avars == <<jobPostings, resultsFile, summaryFile, topMatchesFile, pc, cache,
           jobsToAnalyze, i, successCount, errorCount, runNo, calls,
           ledgerAtStart, catchItems, nCommitted, lastKill,
           resumeOf, resumeRead>>

\* ------------------------------------------------------------- the scraper
\* Items the listing shows in one traversal, over all its pages.
MaxItems == 2
\* Scraping runs in one behaviour.
MaxScrapes == 2

\* Job ids the listing's links may carry (/jobs/view/<digits>).
LinkIds == {1, 2}
\* A list item with no link, or a link with no /jobs/view/<digits>.
NoLink == 0

VARIABLES
    listing,        \* the listing: its pages in order, each the items' link ids
    recordFiles,    \* the ids of the <id>.txt files of the scraper's directory
    spc,            \* where scrapeLinkedInJobs() is
    existingJobIds, \* scrapeLinkedInJobs(): existingJobIds
    jobs,           \* scrapeLinkedInJobs(): jobs (the ids of the postings pushed)
    pageNumber,     \* scrapeLinkedInJobs(): pageNumber
    hasMorePages,   \* scrapeLinkedInJobs(): hasMorePages
    skippedCount,   \* scrapeLinkedInJobs(): skippedCount
    idx,            \* scrapeLinkedInJobs(): i of the card loop (1-based here)
    synthesized,    \* identifiers synthesized so far (none is ever repeated)
    \* history variables
    scrapes,        \* runs started so far
    written,        \* ids whose file this run has written, in order
    caught,         \* items of this run that ended in the per-item catch
    noDetails,      \* items of this run, not skipped, whose wait for the details
                    \* panel timed out
    lastControl,    \* the next-page control the last pagination step found
    loginModal,     \* whether this run's page showed .modal__main.w-full
    currentUrl,     \* page.url() after this run's navigation ("none": not reached)
    afterClean      \* this run follows a run that ended done with every item
                    \* saved or skipped

svars == <<listing, recordFiles, spc, existingJobIds, jobs, pageNumber,
           hasMorePages, skippedCount, idx, synthesized, scrapes, written,
           caught, noDetails, lastControl, loginModal, currentUrl, afterClean>>

\* -------------------------------------------------------------- autoScroll
\* The largest scrollHeight the list container may reach, in pixels.
MaxScrollHeight == 400

VARIABLES
    resultsContainer, \* autoScroll(): whether the XPath found the list container
    scrollHeight,     \* the container's scrollHeight
    totalHeight,      \* autoScroll(): totalHeight
    timer             \* autoScroll(): the interval timer, running or cleared

scrollvars == <<resultsContainer, scrollHeight, totalHeight, timer>>

\* ------------------------------------------------- the record directories
\* Segments of a JOB_POSTINGS_DIR value.
MaxPathLen == 2

VARIABLES
    envDir,         \* process.env.JOB_POSTINGS_DIR of both programs
    cwd,            \* the working directory both programs are started in
    dirname,        \* __dirname of both scripts
    outputDir,      \* scrapeLinkedInJobs(): outputDir, once computed
    jobPostingsDir  \* getJobPostingFiles(): jobPostingsDir, once computed

dirvars == <<envDir, cwd, dirname, outputDir, jobPostingsDir>>

vars == <<avars, svars, scrollvars, dirvars>>

\* JSON.parse of the text "null": the answer is null, not an object.
NullResult == [null |-> TRUE]

IsNull(r) == "null" \in DOMAIN r

\* What the scoring service may answer (response.text parsed by JSON.parse at
\* part_000:194): the schema's fields, present or not, in range or not, or null.
Responses ==
    { NullResult,
      [suitability_status |-> "suitable", match_score |-> 9],
      [suitability_status |-> "maybe_suitable", match_score |-> 5],
      [suitability_status |-> "not_suitable", match_score |-> 2],
      [suitability_status |-> "suitable", match_score |-> 11],
      [suitability_status |-> "suitable", match_score |-> 7],
      [suitability_status |-> "maybe_suitable"],
      [match_score |-> 9] }

HasStatus(r) == "suitability_status" \in DOMAIN r
HasScore(r) == "match_score" \in DOMAIN r

\* interface AnalysisRecord; jobId and linkedinUrl are functions of jobFile
\* (getLinkedInUrl) and analyzedAt is a time stamp: none is read by the code.
AnalysisRecord(fileName, result) == [jobFile |-> fileName, result |-> result]

NoFile == [state |-> "absent", records |-> <<>>]
NoReport ==
    [exists |-> FALSE, whole |-> FALSE, total |-> 0, suitable |-> <<>>, maybe |-> <<>>]
NoKill == [valid |-> FALSE, work |-> <<>>, k |-> 0]

Keys(records) == { records[j].jobFile : j \in 1..Len(records) }

Range(seq) == { seq[j] : j \in 1..Len(seq) }

RECURSIVE SelectRecs(_, _)
SelectRecs(records, status) ==
    IF records = <<>> THEN <<>>
    ELSE LET r == Head(records)
             rest == SelectRecs(Tail(records), status)
         IN IF HasStatus(r.result) /\ r.result.suitability_status = status
            THEN <<r>> \o rest ELSE rest

\* ----------------------------------------------------- the Ledger on disk
\* The comparator handed to sort (part_000:94, :394):
\*   (a, b) => b.result.match_score - a.result.match_score
\* With a match_score missing the difference is NaN, which sort reads as +0.
byScoreDesc(a, b) ==
    IF HasScore(a.result) /\ HasScore(b.result)
    THEN b.result.match_score - a.result.match_score
    ELSE 0

\* The comparator reads .match_score of a.result and b.result: a TypeError when
\* either result is null. Sorting two or more elements hands every element to
\* the comparator; fewer than two, none.
ComparatorThrows(arr) ==
    Len(arr) >= 2 /\ \E j \in 1..Len(arr) : IsNull(arr[j].result)

\* part_000:295: r.result.suitability_status is read of every element.
FilterThrows(arr) == \E j \in 1..Len(arr) : IsNull(arr[j].result)

Reverse(s) == [j \in 1..Len(s) |-> s[Len(s) + 1 - j]]

\* Array.prototype.sort as Node's engine runs it on an array shorter than 64:
\* the leading run is found (and reversed when strictly descending), and the
\* rest is inserted by binary insertion. Stable when the comparator is
\* consistent; with a NaN comparator the order is whatever these steps leave.
RECURSIVE RunLength(_, _, _)
RunLength(work, at, desc) ==
    IF at > Len(work) THEN at - 1
    ELSE LET order == byScoreDesc(work[at], work[at - 1])
         IN IF (desc /\ order >= 0) \/ (~desc /\ order < 0)
            THEN at - 1
            ELSE RunLength(work, at + 1, desc)

RECURSIVE BinarySearch(_, _, _, _)
BinarySearch(work, pivot, left, right) ==
    IF left >= right THEN left
    ELSE LET mid == left + ((right - left) \div 2)
         IN IF byScoreDesc(pivot, work[mid]) < 0
            THEN BinarySearch(work, pivot, left, mid)
            ELSE BinarySearch(work, pivot, mid + 1, right)

RECURSIVE BinaryInsertionSort(_, _)
BinaryInsertionSort(work, start) ==
    IF start > Len(work) THEN work
    ELSE LET pivot == work[start]
             left == BinarySearch(work, pivot, 1, start)
             moved == SubSeq(work, 1, left - 1) \o <<pivot>>
                      \o SubSeq(work, left, start - 1)
                      \o SubSeq(work, start + 1, Len(work))
         IN BinaryInsertionSort(moved, start + 1)

sortByScore(arr) ==
    IF Len(arr) < 2 THEN arr
    ELSE LET desc == byScoreDesc(arr[2], arr[1]) < 0
             n == RunLength(arr, 3, desc)
             run == IF desc
                    THEN Reverse(SubSeq(arr, 1, n)) \o SubSeq(arr, n + 1, Len(arr))
                    ELSE arr
         IN BinaryInsertionSort(run, n + 1)

\* cache[key] = record: an object keeps a key's first position; a new key goes last.
CachePut(c, key, record) ==
    IF key \in Keys(c)
    THEN [j \in 1..Len(c) |-> IF c[j].jobFile = key THEN record ELSE c[j]]
    ELSE Append(c, record)

RECURSIVE CacheOf(_, _)
CacheOf(records, c) ==
    IF records = <<>> THEN c
    ELSE CacheOf(Tail(records), CachePut(c, Head(records).jobFile, Head(records)))

\* loadAnalysisCache(): {} when results.json is absent, else its records by
\* jobFile. (A torn file makes JSON.parse throw: see RunStart.)
loadAnalysisCache(file) ==
    IF file.state = "absent" THEN <<>> ELSE CacheOf(file.records, <<>>)

\* A save that appends the records to the file instead of rewriting it.
saveAnalysisCache_appends(c, file) ==
    [state |-> "ok", records |-> file.records \o sortByScore(c)]

\* saveAnalysisCache(cache): the whole file is rewritten with Object.values(cache)
\* sorted by the comparator. file is the content being replaced.
saveAnalysisCache(c, file) ==
    [state |-> "ok", records |-> sortByScore(c)]

\* fs.writeFileSync opens results.json truncating it and then writes: a process
\* killed in between, or a write that fails once the file is open, leaves an
\* empty or partial file, which no JSON.parse accepts.
TornFile == [state |-> "torn", records |-> <<>>]

\* getJobPostingFiles(): the *.txt files of the directory, in readdir order.
RECURSIVE getJobPostingFiles(_)
getJobPostingFiles(dir) ==
    IF dir = {} THEN <<>>
    ELSE LET least == CHOOSE f \in dir : \A g \in dir : f <= g
         IN <<least>> \o getJobPostingFiles(dir \ {least})

\* A work set that is every record file, analysed or not.
JobsToAnalyze_unfiltered(jobFiles, c) == jobFiles

\* run(): jobFiles.filter((filePath) => !cache[path.basename(filePath)])
JobsToAnalyze(jobFiles, c) ==
    SelectSeq(jobFiles, LAMBDA f : f \notin Keys(c))

\* maybe.slice(0, 20) of generateSummaryReport
MaybeShown == 20

FirstN(s, n) == SubSeq(s, 1, IF Len(s) < n THEN Len(s) ELSE n)

\* A summary whose suitable section lists every result.
generateSummaryReport_all(results) ==
    [exists |-> TRUE,
     whole |-> TRUE,
     total |-> Len(results),
     suitable |-> results,
     maybe |-> FirstN(SelectRecs(results, "maybe_suitable"), MaybeShown)]

\* generateSummaryReport(results): the sections of summary.txt.
generateSummaryReport(results) ==
    [exists |-> TRUE,
     whole |-> TRUE,
     total |-> Len(results),
     suitable |-> SelectRecs(results, "suitable"),
     maybe |-> FirstN(SelectRecs(results, "maybe_suitable"), MaybeShown)]

\* generateTopMatchesReport(results): a sorted copy of results, one line each.
generateTopMatchesReport(results) ==
    [exists |-> TRUE, whole |-> TRUE, entries |-> sortByScore(results)]

NoTopMatches == [exists |-> FALSE, whole |-> FALSE, entries |-> <<>>]

\* A report whose fs.writeFileSync was cut short: the file is there, empty or
\* with the beginning of the text.
TornSummary ==
    [exists |-> TRUE, whole |-> FALSE, total |-> 0, suitable |-> <<>>, maybe |-> <<>>]
TornTopMatches == [exists |-> TRUE, whole |-> FALSE, entries |-> <<>>]

\* resume.md as readResume() may find it: with text, with white space only,
\* or not there.
ResumeFiles == {"text", "blank", "missing"}

\* A readResume that only asks whether resume.md exists.
readResume_ifExists(resume) == resume # "missing"

\* readResume(): TRUE when the content is returned; process.exit(1) when the
\* file does not exist or its content trims to nothing.
readResume(resume) == resume = "text"

\* How a call of fs.writeFileSync may end: the file written whole; a throw at
\* the open, which leaves the file as it was; a throw after the truncating
\* open, which leaves the file there with its content lost.
WriteOutcomes == {"whole", "unopened", "torn"}

\* ------------------------------------------------------------------ run()
Idle == {"idle", "done", "fatal", "killed"}
Running == {"summaryonly", "loop", "reports", "topmatches"}

AInit ==
    /\ jobPostings = {}
    /\ resultsFile = NoFile
    /\ summaryFile = NoReport
    /\ topMatchesFile = NoTopMatches
    /\ pc = "idle"
    /\ cache = <<>>
    /\ jobsToAnalyze = <<>>
    /\ i = 1
    /\ successCount = 0
    /\ errorCount = 0
    /\ runNo = 0
    /\ calls = <<>>
    /\ ledgerAtStart = {}
    /\ catchItems = {}
    /\ nCommitted = 0
    /\ lastKill = NoKill
    /\ resumeOf = NoKill
    /\ resumeRead = "none"

\* The scraper leaves a new record file in the directory, between two runs or
\* while run() is under way (the loop awaits each service call, part_000:257).
\* The file is named by its job id (linkedin-scraper.ts:318-322), so it may
\* list before files that are there already. The run in hand took its listing
\* at 219 and does not look again: the file is left for the next run.
AddJobPosting ==
    /\ UNCHANGED <<svars, scrollvars, dirvars>>
    /\ \E id \in (1..MaxFiles) \ jobPostings :
         jobPostings' = jobPostings \cup {id}
    /\ lastKill' = NoKill
    /\ UNCHANGED <<resultsFile, summaryFile, topMatchesFile, pc, cache,
                   jobsToAnalyze, i, successCount, errorCount, runNo, calls,
                   ledgerAtStart, catchItems, nCommitted, resumeOf, resumeRead>>

StartHistory ==
    /\ runNo' = runNo + 1
    /\ calls' = <<>>
    /\ catchItems' = {}
    /\ nCommitted' = 0
    /\ ledgerAtStart' = IF resultsFile.state = "ok" THEN Keys(resultsFile.records) ELSE {}
    /\ resumeOf' = lastKill
    /\ lastKill' = NoKill

\* run() up to the loop (part_000:199-247): load the cache, read the resume,
\* list the record files, compute the work set. JSON.parse of a torn
\* results.json throws and run() rejects; a missing or blank resume.md exits;
\* fs.readdirSync of a directory that is not there throws and run() rejects
\* (a directory with no record file in it may be there, empty, or not be there).
RunStart ==
    /\ UNCHANGED <<svars, scrollvars, dirvars>>
    /\ pc \in Idle
    /\ runNo < MaxRuns
    /\ StartHistory
    /\ i' = 1
    /\ successCount' = 0
    /\ errorCount' = 0
    /\ UNCHANGED <<jobPostings, resultsFile, topMatchesFile>>
    /\ IF resultsFile.state = "torn"
       THEN /\ pc' = "fatal"
            /\ cache' = <<>>
            /\ jobsToAnalyze' = <<>>
            /\ resumeRead' = "none"
            /\ UNCHANGED summaryFile
       ELSE \E resume \in ResumeFiles :
              /\ resumeRead' = resume
              /\ IF ~readResume(resume)
                 THEN /\ pc' = "fatal"
                      /\ cache' = loadAnalysisCache(resultsFile)
                      /\ jobsToAnalyze' = <<>>
                      /\ UNCHANGED summaryFile
                 ELSE \E dirThere \in (IF jobPostings = {} THEN BOOLEAN ELSE {TRUE}) :
                      LET loaded == loadAnalysisCache(resultsFile)
                          work == JobsToAnalyze(getJobPostingFiles(jobPostings), loaded)
                      IN /\ cache' = loaded
                         /\ UNCHANGED summaryFile
                         /\ IF ~dirThere
                            THEN /\ jobsToAnalyze' = <<>>
                                 /\ pc' = "fatal"
                            ELSE /\ jobsToAnalyze' = work
                                 /\ pc' = IF work = <<>> THEN "summaryonly" ELSE "loop"

\* part_000:229-240: with nothing to analyse, summary.txt is written from the
\* loaded cache and run() returns; a throw of the write at 236 rejects run().
WriteSummaryOnly ==
    /\ UNCHANGED <<svars, scrollvars, dirvars>>
    /\ pc = "summaryonly"
    /\ \E outcome \in WriteOutcomes :
         /\ summaryFile' = CASE outcome = "whole" -> generateSummaryReport(cache)
                              [] outcome = "unopened" -> summaryFile
                              [] outcome = "torn" -> TornSummary
         /\ pc' = IF outcome = "whole" THEN "done" ELSE "fatal"
    /\ UNCHANGED <<jobPostings, resultsFile, topMatchesFile, cache, jobsToAnalyze,
                   i, successCount, errorCount, runNo, calls, ledgerAtStart,
                   catchItems, nCommitted, lastKill, resumeOf, resumeRead>>

\* One pass of the loop body (part_000:249-283). readJobPosting may throw
\* before the service is called; the service call may reject, or its text may
\* not parse; a response is put in the cache before its status is printed, and
\* printing the status of null or a missing status throws a TypeError into the
\* catch branch. After successCount++ comes saveAnalysisCache(cache): it may
\* throw before results.json is touched (in the comparator, or opening the
\* file), or with the file open, which leaves it torn; the catch branch then
\* counts an error for the same item, whose entry stays in the cache.
AnalyzeItem ==
    /\ UNCHANGED <<svars, scrollvars, dirvars>>
    /\ pc = "loop"
    /\ i <= Len(jobsToAnalyze)
    /\ i' = i + 1
    /\ LET fileName == jobsToAnalyze[i]
           Caught == /\ errorCount' = errorCount + 1
                     /\ catchItems' = catchItems \cup {fileName}
                     /\ UNCHANGED nCommitted
       IN \/ /\ Caught
             /\ UNCHANGED <<calls, cache, successCount, resultsFile>>
          \/ /\ calls' = Append(calls, fileName)
             /\ \/ /\ Caught
                   /\ UNCHANGED <<cache, successCount, resultsFile>>
                \/ \E result \in Responses :
                     LET put == CachePut(cache, fileName, AnalysisRecord(fileName, result))
                     IN /\ cache' = put
                        /\ IF ~HasStatus(result)
                           THEN /\ Caught
                                /\ UNCHANGED <<successCount, resultsFile>>
                           ELSE /\ successCount' = successCount + 1
                                /\ \/ /\ Caught
                                      /\ UNCHANGED resultsFile
                                   \/ /\ ~ComparatorThrows(put)
                                      /\ Caught
                                      /\ resultsFile' = TornFile
                                   \/ /\ ~ComparatorThrows(put)
                                      /\ resultsFile' = saveAnalysisCache(put, resultsFile)
                                      /\ nCommitted' = nCommitted + 1
                                      /\ UNCHANGED <<errorCount, catchItems>>
    /\ UNCHANGED <<jobPostings, summaryFile, topMatchesFile, jobsToAnalyze, runNo,
                   ledgerAtStart, lastKill, resumeOf, resumeRead, pc>>

\* After the loop (part_000:285-310): the statistics are printed, which throws
\* at 295 when a cached result is null, and saveAnalysisCache(cache) rewrites
\* results.json, which may throw before the file is touched or with the file
\* open. Every throw rejects run().
FinalSave ==
    /\ UNCHANGED <<svars, scrollvars, dirvars>>
    /\ pc = "loop"
    /\ i > Len(jobsToAnalyze)
    /\ \/ /\ pc' = "fatal"
          /\ UNCHANGED resultsFile
       \/ /\ ~FilterThrows(cache)
          /\ pc' = "fatal"
          /\ resultsFile' = TornFile
       \/ /\ ~FilterThrows(cache)
          /\ resultsFile' = saveAnalysisCache(cache, resultsFile)
          /\ pc' = "reports"
    /\ UNCHANGED <<jobPostings, summaryFile, topMatchesFile, cache, jobsToAnalyze,
                   i, successCount, errorCount, runNo, calls, ledgerAtStart,
                   catchItems, nCommitted, lastKill, resumeOf,
                   resumeRead>>

\* part_000:313-317: summary.txt from allResults, which is Object.values(cache);
\* a throw of the write at 316 rejects run() before top-matches.txt is reached.
WriteSummary ==
    /\ UNCHANGED <<svars, scrollvars, dirvars>>
    /\ pc = "reports"
    /\ \E outcome \in WriteOutcomes :
         /\ summaryFile' = CASE outcome = "whole" -> generateSummaryReport(cache)
                              [] outcome = "unopened" -> summaryFile
                              [] outcome = "torn" -> TornSummary
         /\ pc' = IF outcome = "whole" THEN "topmatches" ELSE "fatal"
    /\ UNCHANGED <<jobPostings, resultsFile, topMatchesFile, cache, jobsToAnalyze,
                   i, successCount, errorCount, runNo, calls, ledgerAtStart,
                   catchItems, nCommitted, lastKill, resumeOf, resumeRead>>

\* part_000:319-323: top-matches.txt from allResults; a throw of the write at
\* 322 rejects run() with summary.txt already written.
WriteTopMatches ==
    /\ UNCHANGED <<svars, scrollvars, dirvars>>
    /\ pc = "topmatches"
    /\ \E outcome \in WriteOutcomes :
         /\ topMatchesFile' = CASE outcome = "whole" -> generateTopMatchesReport(cache)
                                 [] outcome = "unopened" -> topMatchesFile
                                 [] outcome = "torn" -> TornTopMatches
         /\ pc' = IF outcome = "whole" THEN "done" ELSE "fatal"
    /\ UNCHANGED <<jobPostings, resultsFile, summaryFile, cache, jobsToAnalyze,
                   i, successCount, errorCount, runNo, calls, ledgerAtStart,
                   catchItems, nCommitted, lastKill, resumeOf, resumeRead>>

\* The process is terminated from outside, wherever run() is: its memory is
\* gone, the files stay as they are. A kill that falls inside a write leaves
\* the file being written torn: in the loop that is results.json (written at
\* 277 for the item in hand, at 310 after the last one; with a null result in
\* the cache neither write is reached), then summary.txt, then top-matches.txt.
Kill ==
    /\ UNCHANGED <<svars, scrollvars, dirvars>>
    /\ pc \in Running
    /\ pc' = "killed"
    /\ \E inWrite \in BOOLEAN :
         /\ resultsFile' = IF inWrite /\ pc = "loop" /\ ~FilterThrows(cache)
                           THEN TornFile ELSE resultsFile
         /\ summaryFile' = IF inWrite /\ pc \in {"summaryonly", "reports"}
                           THEN TornSummary ELSE summaryFile
         /\ topMatchesFile' = IF inWrite /\ pc = "topmatches"
                              THEN TornTopMatches ELSE topMatchesFile
    /\ cache' = <<>>
    /\ jobsToAnalyze' = <<>>
    /\ i' = 1
    /\ successCount' = 0
    /\ errorCount' = 0
    /\ calls' = <<>>
    /\ catchItems' = {}
    /\ nCommitted' = 0
    /\ ledgerAtStart' = {}
    /\ resumeOf' = NoKill
    /\ lastKill' = IF /\ errorCount = 0
                      /\ nCommitted < Len(jobsToAnalyze)
                      /\ jobPostings \ ledgerAtStart = Range(jobsToAnalyze)
                   THEN [valid |-> TRUE, work |-> jobsToAnalyze, k |-> nCommitted]
                   ELSE NoKill
    /\ resumeRead' = "none"
    /\ UNCHANGED <<jobPostings, runNo>>

Next ==
    \/ AddJobPosting
    \/ RunStart
    \/ WriteSummaryOnly
    \/ AnalyzeItem
    \/ FinalSave
    \/ WriteSummary
    \/ WriteTopMatches
    \/ Kill


\* ------------------------------------------------------ analyzer: claims
Computed == Running \cup {"done"}

LedgerIds == IF resultsFile.state = "ok" THEN Keys(resultsFile.records) ELSE {}

\* C1: a record whose identifier is in results.json when a run starts is never
\* passed to analyzeJobSuitability during that run.
C1_NoResubmission ==
    \A j \in 1..Len(calls) : calls[j] \notin ledgerAtStart

\* A run that started from a non-empty Ledger has submitted a record.
C1_Witness ==
    /\ ledgerAtStart # {}
    /\ Len(calls) > 0

\* C2: when a run over the work set W was killed with the entries of items
\* 1..k committed (k < Len(W), no item failed: resumeOf) and the directory is
\* unchanged, a fresh run (one that finds its resume) computes the work set
\* W's items k+1..Len(W).
C2_CrashResume ==
    (resumeOf.valid /\ resumeRead \notin {"blank", "missing"})
    => jobsToAnalyze = SubSeq(resumeOf.work, resumeOf.k + 1, Len(resumeOf.work))

ValidResult(r) ==
    /\ HasStatus(r)
    /\ HasScore(r)
    /\ r.match_score >= 0
    /\ r.match_score <= 10

\* C3: a response lacking suitability_status or match_score, or with a
\* match_score outside [0, 10], creates no Ledger entry: every entry of the
\* cache and of results.json holds a valid result.
C3_InvalidRejected ==
    /\ \A j \in 1..Len(cache) : ValidResult(cache[j].result)
    /\ resultsFile.state = "ok" =>
         \A j \in 1..Len(resultsFile.records) : ValidResult(resultsFile.records[j].result)

\* C4: an item whose processing ended in the catch branch is absent from
\* results.json when the run ends.
C4_CaughtItemAbsent ==
    pc = "done" => catchItems \cap LedgerIds = {}

\* C5: after every write of saveAnalysisCache the entries of results.json are
\* non-increasing in match_score by position.
C5_SortedByScore ==
    resultsFile.state = "ok" =>
        \A p, q \in 1..Len(resultsFile.records) :
            (/\ p < q
             /\ HasScore(resultsFile.records[p].result)
             /\ HasScore(resultsFile.records[q].result))
            => resultsFile.records[p].result.match_score
                 >= resultsFile.records[q].result.match_score

\* C6: wherever a run is terminated, results.json is left loadable by the next
\* run, with the entries committed before the item in flight.
C6_LoadableAfterKill ==
    pc = "killed" => resultsFile.state # "torn"

OnePerKey(records) ==
    \A p, q \in 1..Len(records) : p # q => records[p].jobFile # records[q].jobFile

\* C9: the Ledger, in memory and in results.json, holds at most one entry per
\* record identifier.
C9_OneEntryPerRecord ==
    /\ OnePerKey(cache)
    /\ resultsFile.state = "ok" => OnePerKey(resultsFile.records)

\* A run that started from a non-empty Ledger has committed a further entry.
C9_Witness ==
    /\ ledgerAtStart # {}
    /\ nCommitted >= 1
    /\ resultsFile.state = "ok"
    /\ Len(resultsFile.records) >= 2

SortedDesc(records) ==
    \A p, q \in 1..Len(records) :
        p < q => records[p].result.match_score >= records[q].result.match_score

\* C11: when a run that started from an empty Ledger has ended and every item
\* of its work set was classified with a valid result, results.json holds
\* exactly the work set's records, one entry each, in descending match_score,
\* and the suitable section of summary.txt lists exactly the entries whose
\* status is suitable, each once.
C11_LedgerAndSummary ==
    (/\ pc = "done"
     /\ ledgerAtStart = {}
     /\ jobsToAnalyze # <<>>
     /\ catchItems = {}
     /\ \A j \in 1..Len(cache) : ValidResult(cache[j].result))
    => /\ resultsFile.state = "ok"
       /\ Keys(resultsFile.records) = Range(jobsToAnalyze)
       /\ Len(resultsFile.records) = Len(jobsToAnalyze)
       /\ SortedDesc(resultsFile.records)
       /\ summaryFile.exists
       /\ OnePerKey(summaryFile.suitable)
       /\ Range(summaryFile.suitable) =
            { r \in Range(resultsFile.records) : r.result.suitability_status = "suitable" }

\* B = 1.txt (not_suitable, 2) was classified before A = 2.txt (suitable, 9):
\* results.json is [A, B] and summary.txt lists A alone as suitable.
C11_Witness ==
    /\ pc = "done"
    /\ ledgerAtStart = {}
    /\ resultsFile.state = "ok"
    /\ resultsFile.records =
         << AnalysisRecord(2, [suitability_status |-> "suitable", match_score |-> 9]),
            AnalysisRecord(1, [suitability_status |-> "not_suitable", match_score |-> 2]) >>
    /\ summaryFile.suitable =
         << AnalysisRecord(2, [suitability_status |-> "suitable", match_score |-> 9]) >>

\* C12: a run that finds resume.md missing or blank aborts at startup: it
\* submits nothing to analyzeJobSuitability and leaves results.json as it was.
C12_NoResumeAborts ==
    [][resumeRead' \in {"blank", "missing"}
       => (pc' = "fatal" /\ calls' = <<>> /\ resultsFile' = resultsFile)]_vars

\* A run has aborted on a blank resume.md with a record waiting for analysis
\* and a Ledger that holds an entry.
C12_Witness ==
    /\ pc = "fatal"
    /\ resumeRead = "blank"
    /\ resultsFile.state = "ok"
    /\ resultsFile.records # <<>>
    /\ jobPostings \ LedgerIds # {}
    /\ calls = <<>>

\* The items of the work set the loop has taken up so far.
TakenUp ==
    SubSeq(jobsToAnalyze, 1, IF pc = "loop" THEN i - 1 ELSE Len(jobsToAnalyze))

\* C16 as stated: the work set a run computes is the record files of the
\* directory that are not in results.json as the run starts, each once, and
\* stays as computed; the loop submits its items in that order, one submission
\* per item whether it fails or not, and nothing else.
C16_WorkSetSubmittedOnce ==
    [][/\ (runNo' = runNo + 1 /\ pc' \in Computed)
          => /\ Range(jobsToAnalyze') = jobPostings \ ledgerAtStart'
             /\ Cardinality(Range(jobsToAnalyze')) = Len(jobsToAnalyze')
       /\ pc' \in Computed
          => /\ runNo' = runNo => jobsToAnalyze' = jobsToAnalyze
             /\ calls' = TakenUp']_vars

\* C16 amended: the work set a run computes is the record files of the
\* directory that are not in results.json as the run starts, each once, and
\* stays as computed (a file that arrives during the run is not added); the
\* loop takes its items up in that order and the submissions are the items
\* taken up, in that order and at most once each, less items that ended in the
\* catch branch (an item whose file cannot be read gets there without being
\* submitted).
C16_ReadableSubmittedOnce ==
    [][/\ (runNo' = runNo + 1 /\ pc' \in Computed)
          => /\ Range(jobsToAnalyze') = jobPostings \ ledgerAtStart'
             /\ Cardinality(Range(jobsToAnalyze')) = Len(jobsToAnalyze')
       /\ pc' \in Computed
          => /\ runNo' = runNo => jobsToAnalyze' = jobsToAnalyze
             /\ calls' = SelectSeq(TakenUp', LAMBDA f : f \in Range(calls'))
             /\ Range(TakenUp') \ Range(calls') \subseteq catchItems']_vars

\* A run that started from a non-empty Ledger has ended: of its two items the
\* first could not be read, the second was submitted and committed.
C16_Witness ==
    /\ pc = "done"
    /\ ledgerAtStart # {}
    /\ Len(jobsToAnalyze) = 2
    /\ calls = Tail(jobsToAnalyze)
    /\ catchItems = {jobsToAnalyze[1]}
    /\ nCommitted = 1

\* C17: when the loop is about to take up an item, results.json holds an entry
\* for every earlier item of the work set that was classified successfully
\* (its answer carried a status, was printed at 271 and counted at 274).
C17_CommittedBeforeNext ==
    pc = "loop" =>
        \A j \in 1..Len(cache) :
            (cache[j].jobFile \in Range(calls) /\ HasStatus(cache[j].result))
            => cache[j].jobFile \in LedgerIds

\* C21: in the summary.txt a run has written, the suitable section and the
\* maybe-suitable section are in non-increasing match_score (every result of
\* the Ledger being valid).
C21_SectionsSorted ==
    (/\ pc = "done"
     /\ summaryFile.exists
     /\ \A j \in 1..Len(cache) : ValidResult(cache[j].result))
    => /\ SortedDesc(summaryFile.suitable)
       /\ SortedDesc(summaryFile.maybe)

\* C20: a run that found nothing to analyse has rewritten summary.txt and
\* top-matches.txt from the Ledger it loaded.
C20_EmptyWorkSetReports ==
    (pc = "done" /\ jobsToAnalyze = <<>>)
    => /\ summaryFile = generateSummaryReport(cache)
       /\ topMatchesFile = generateTopMatchesReport(cache)

\* C22: when the loop is between two items, at least one committed, the
\* reports on disk are those of the persisted Ledger: summary.txt counts its
\* entries and top-matches.txt lists them.
C22_ReportsAfterEachItem ==
    (pc = "loop" /\ nCommitted >= 1)
    => /\ summaryFile.exists
       /\ summaryFile.total = Len(resultsFile.records)
       /\ topMatchesFile.exists
       /\ Range(topMatchesFile.entries) = Range(resultsFile.records)

Pos(records, key) == CHOOSE j \in 1..Len(records) : records[j].jobFile = key

SameScore(a, b) ==
    /\ HasScore(a.result)
    /\ HasScore(b.result)
    /\ a.result.match_score = b.result.match_score

\* Entries of old with equal scores are in new in the same relative order.
TiesKept(old, new) ==
    \A p, q \in 1..Len(old) :
        (/\ p < q
         /\ SameScore(old[p], old[q])
         /\ {old[p].jobFile, old[q].jobFile} \subseteq Keys(new))
        => Pos(new, old[p].jobFile) < Pos(new, old[q].jobFile)

\* An entry of new that old had not comes after old's entries of its score.
NewAfter(old, new) ==
    \A p, q \in 1..Len(new) :
        (/\ new[q].jobFile \notin Keys(old)
         /\ new[p].jobFile \in Keys(old)
         /\ SameScore(new[p], new[q]))
        => p < q

\* C24: every write of results.json keeps the entries of equal match_score in
\* the relative order they had in the file it replaces (which the run loaded
\* or wrote), and puts a new entry after the entries of the same score
\* (checked on the save of the last item of a run of up to MaxLedger items).
C24_StableTies ==
    [][(resultsFile' # resultsFile /\ resultsFile'.state = "ok"
                                    /\ resultsFile.state # "torn")
       => /\ TiesKept(resultsFile.records, resultsFile'.records)
          /\ NewAfter(resultsFile.records, resultsFile'.records)]_vars

\* C26: when a run has ended, successCount + errorCount is the size of the
\* work set and successCount is the number of identifiers results.json has
\* gained since the run started.
C26_CountsAddUp ==
    pc = "done" =>
        /\ successCount + errorCount = Len(jobsToAnalyze)
        /\ resultsFile.state = "ok" =>
             successCount = Cardinality(LedgerIds \ ledgerAtStart)

\* C27: a run that reads its resume and finds every record file in
\* results.json goes straight to the write of summary.txt (or is rejected,
\* the directory not being there) and ends there, the write done or failed,
\* with no submission and results.json as it was.
C27_EmptyWorkSetNoWrite ==
    [][/\ (/\ runNo' = runNo + 1
           /\ resumeRead' = "text"
           /\ jobPostings \subseteq LedgerIds)
          => /\ pc' \in {"summaryonly", "fatal"}
             /\ jobsToAnalyze' = <<>>
             /\ calls' = <<>>
             /\ resultsFile' = resultsFile
       /\ pc = "summaryonly"
          => /\ pc' \in {"summaryonly", "done", "fatal", "killed"}
             /\ calls' = <<>>
             /\ resultsFile' = resultsFile]_vars

\* The second run found both record files in results.json and ended with
\* nothing to analyse; summary.txt counts the two entries.
C27_Witness ==
    /\ pc = "done"
    /\ runNo = 2
    /\ jobsToAnalyze = <<>>
    /\ calls = <<>>
    /\ Cardinality(jobPostings) = 2
    /\ resultsFile.state = "ok"
    /\ Len(resultsFile.records) = 2
    /\ summaryFile.total = 2

\* ---------------------------------------------------- scrapeLinkedInJobs()
SIdle == {"idle", "done", "halted", "killed"}
STraversing == {"page", "cards"}

\* The listings of at most MaxItems items: a row of items cut into pages.
RECURSIVE Paged(_, _)
Paged(items, cuts) ==
    IF Len(items) <= 1 THEN <<items>>
    ELSE LET rest == Paged(Tail(items), Tail(cuts))
         IN IF Head(cuts)
            THEN <<(<<Head(items)>>)>> \o rest
            ELSE <<(<<Head(items)>> \o Head(rest))>> \o Tail(rest)

Listings ==
    UNION { { Paged(items, cuts) :
                items \in [1..n -> LinkIds \cup {NoLink}],
                cuts \in [1..(IF n = 0 THEN 0 ELSE n - 1) -> BOOLEAN] } :
            n \in 0..MaxItems }

PageItems(p) == IF p \in 1..Len(listing) THEN listing[p] ELSE <<>>

TotalItems == LET RECURSIVE Sum(_)
                  Sum(p) == IF p > Len(listing) THEN 0 ELSE Len(listing[p]) + Sum(p + 1)
              IN Sum(1)

SIdleInit ==
    /\ recordFiles = {}
    /\ spc = "idle"
    /\ existingJobIds = {}
    /\ jobs = <<>>
    /\ pageNumber = 1
    /\ hasMorePages = TRUE
    /\ skippedCount = 0
    /\ idx = 1
    /\ synthesized = 0
    /\ scrapes = 0
    /\ written = <<>>
    /\ caught = 0
    /\ noDetails = 0
    /\ lastControl = "none"
    /\ loginModal = FALSE
    /\ currentUrl = "none"
    /\ afterClean = FALSE

SInit ==
    /\ listing \in Listings
    /\ SIdleInit

\* linkedin-scraper.ts:180-190: the digits of the card's /jobs/view/ link, or
\* job-<Date.now()>-<random>, which no earlier identifier equals. Link ids are
\* positive; the n-th synthesized identifier is written -n.
JobIdOf(item, n) == IF item # NoLink THEN item ELSE 0 - n

\* A skip test that never skips.
AlreadyScraped_never(jobId, existing) == FALSE

\* linkedin-scraper.ts:193: existingJobIds.has(jobId)
AlreadyScraped(jobId, existing) == jobId \in existing

\* A test of the next-page control that only asks whether it is there.
CanAdvance_ifPresent(control) == control # "absent"

\* linkedin-scraper.ts:339-349: the button is there and is not disabled.
CanAdvance(control) == control = "enabled"

\* The next-page control page p shows: enabled while a page follows, else
\* absent or disabled.
Controls(p) ==
    IF p < Len(listing) THEN {"enabled"} ELSE {"absent", "disabled"}

\* Where the navigation may end: the listing's URL, or one of LinkedIn's
\* redirects.
Urls == {"jobs", "checkpoint", "login", "authwall"}

\* An authentication test that only looks at the URL.
AuthRequired_urlOnly(modal, url) == url \in {"checkpoint", "login", "authwall"}

\* linkedin-scraper.ts:106-125: the login modal is there, or the URL includes
\* checkpoint, login or authwall.
AuthRequired(modal, url) ==
    modal \/ url \in {"checkpoint", "login", "authwall"}

\* linkedin-scraper.ts:18-143: the directory's ids are loaded, the browser is
\* reached, the listing opened. No browser or a failed navigation ends the run
\* before the page is looked at; a login wall or a listing that does not show
\* throws to the outer catch.
ScrapeStart ==
    /\ UNCHANGED <<avars, scrollvars, dirvars>>
    /\ spc \in SIdle
    /\ scrapes < MaxScrapes
    /\ scrapes' = scrapes + 1
    /\ existingJobIds' = recordFiles
    /\ afterClean' = (/\ spc = "done"
                       /\ caught = 0
                       /\ Len(jobs) + skippedCount = TotalItems)
    /\ jobs' = <<>>
    /\ pageNumber' = 1
    /\ hasMorePages' = TRUE
    /\ skippedCount' = 0
    /\ idx' = 1
    /\ written' = <<>>
    /\ caught' = 0
    /\ noDetails' = 0
    /\ lastControl' = "none"
    /\ \/ /\ spc' = "halted"
          /\ loginModal' = FALSE
          /\ currentUrl' = "none"
       \/ \E modal \in BOOLEAN, url \in Urls :
            /\ loginModal' = modal
            /\ currentUrl' = url
            /\ IF AuthRequired(modal, url)
               THEN spc' = "halted"
               ELSE \E listShows \in BOOLEAN :
                      spc' = IF listShows THEN "page" ELSE "halted"
    /\ UNCHANGED <<listing, recordFiles, synthesized>>

\* A per-item catch that ends the run.
OnItemError_halts == "halted"

\* linkedin-scraper.ts:325-327: the catch of the card loop's try logs the
\* error; the run goes on in the card loop.
OnItemError == "cards"

\* linkedin-scraper.ts:202: what page.$ of #job-details gives: the element,
\* null, or a rejection. It is a query of its own: the wait before it (170-177)
\* waits for a visible panel and gives up after 10 s, the query asks for an
\* attached one at a later moment, so either may find what the other did not.
Queries == {"found", "null", "throws"}

\* linkedin-scraper.ts:204: if (!jobDetailsElement) continue
DetailsElement(query) == query = "found"

\* A write that is put off to the end of the run.
writeJobFile_deferred(jobId, outcome, files) == files

\* linkedin-scraper.ts:318-323: fs.writeFileSync of <jobId>.txt in outputDir.
\* The directory's ids afterwards: the file is there once the open has
\* succeeded, whole or, when the write then throws, empty.
writeJobFile(jobId, outcome, files) ==
    IF outcome = "unopened" THEN files ELSE files \cup {jobId}

\* linkedin-scraper.ts:145-157: a page of the listing is scrolled by
\* autoScroll and its cards are collected by page.$$; a rejection of either
\* goes to the outer catch (391) and ends the run.
LoadPage ==
    /\ UNCHANGED <<avars, scrollvars, dirvars>>
    /\ spc = "page"
    /\ \E loaded \in BOOLEAN :
         spc' = IF loaded THEN "cards" ELSE "halted"
    /\ UNCHANGED <<listing, recordFiles, existingJobIds, jobs, pageNumber,
                   hasMorePages, skippedCount, idx, synthesized, scrapes,
                   written, caught, noDetails, lastControl, loginModal,
                   currentUrl, afterClean>>

\* linkedin-scraper.ts:159-327: one pass of the card loop. The click (or the
\* reading of the card's link) may throw; the wait for the details panel may
\* time out, which is logged and nothing more; the query of the panel may
\* find it, find nothing or throw; the extraction may throw, and so may the
\* write of the file (322), after jobs.push (316): at the open, which leaves
\* no file, or after it, which leaves <jobId>.txt in the directory, empty.
\* noDetails counts the timed-out waits of the items that reached the query.
ProcessCard ==
    /\ UNCHANGED <<avars, scrollvars, dirvars>>
    /\ spc = "cards"
    /\ idx <= Len(PageItems(pageNumber))
    /\ idx' = idx + 1
    /\ LET item == PageItems(pageNumber)[idx]
           jobId == JobIdOf(item, synthesized + 1)
           Fails == /\ caught' = caught + 1
                    /\ spc' = OnItemError
       IN \/ /\ Fails
             /\ UNCHANGED <<synthesized, skippedCount, noDetails, jobs,
                            recordFiles, written>>
          \/ /\ synthesized' = IF item = NoLink THEN synthesized + 1 ELSE synthesized
             /\ IF AlreadyScraped(jobId, existingJobIds)
                THEN /\ skippedCount' = skippedCount + 1
                     /\ UNCHANGED <<caught, noDetails, jobs, recordFiles,
                                    written, spc>>
                ELSE \E wait \in BOOLEAN, query \in Queries :
                       /\ UNCHANGED skippedCount
                       /\ noDetails' = IF wait THEN noDetails ELSE noDetails + 1
                       /\ IF query = "throws"
                          THEN /\ Fails
                               /\ UNCHANGED <<jobs, recordFiles, written>>
                          ELSE IF ~DetailsElement(query)
                          THEN UNCHANGED <<caught, jobs, recordFiles, written, spc>>
                          ELSE \/ /\ Fails
                                  /\ UNCHANGED <<jobs, recordFiles, written>>
                               \/ /\ jobs' = Append(jobs, jobId)
                                  /\ \E write \in WriteOutcomes :
                                       /\ recordFiles' = writeJobFile(jobId, write, recordFiles)
                                       /\ IF write = "whole"
                                          THEN /\ written' = Append(written, jobId)
                                               /\ UNCHANGED <<caught, spc>>
                                          ELSE /\ Fails
                                               /\ UNCHANGED written
    /\ UNCHANGED <<listing, existingJobIds, pageNumber, hasMorePages,
                   scrapes, lastControl, loginModal, currentUrl, afterClean>>

\* linkedin-scraper.ts:329-389: after the last card, the next-page control.
\* The scroll to the bottom (333), the query of the button (339) and the
\* reading of its disabled state (343) may reject before the control is known;
\* the click, or the wait for the list after it (361), may reject once it is
\* known to be enabled. With no enabled control the loop ends and the run
\* writes _summary.json (379-389), a file neither program reads; it ends done
\* when the write returns. Every rejection, that write's too, goes to the
\* outer catch (391).
Paginate ==
    /\ UNCHANGED <<avars, scrollvars, dirvars>>
    /\ spc = "cards"
    /\ idx > Len(PageItems(pageNumber))
    /\ \/ /\ spc' = "halted"
          /\ UNCHANGED <<lastControl, pageNumber, idx, hasMorePages>>
       \/ \E control \in Controls(pageNumber) :
            /\ lastControl' = control
            /\ IF CanAdvance(control)
               THEN \E listShows \in BOOLEAN :
                    IF listShows
                    THEN /\ pageNumber' = pageNumber + 1
                         /\ idx' = 1
                         /\ spc' = "page"
                         /\ UNCHANGED hasMorePages
                    ELSE /\ spc' = "halted"
                         /\ UNCHANGED <<pageNumber, idx, hasMorePages>>
               ELSE \E outcome \in WriteOutcomes :
                      /\ hasMorePages' = FALSE
                      /\ spc' = IF outcome = "whole" THEN "done" ELSE "halted"
                      /\ UNCHANGED <<pageNumber, idx>>
    /\ UNCHANGED <<listing, recordFiles, existingJobIds, jobs, skippedCount,
                   synthesized, scrapes, written, caught, noDetails, loginModal,
                   currentUrl, afterClean>>

\* The process is terminated from outside during the traversal. A kill that
\* falls inside the write of an item's file (322) leaves the file in the
\* directory with its content lost.
ScrapeKill ==
    /\ UNCHANGED <<avars, scrollvars, dirvars>>
    /\ spc \in STraversing
    /\ spc' = "killed"
    /\ LET item == PageItems(pageNumber)[idx]
           jobId == JobIdOf(item, synthesized + 1)
       IN \/ UNCHANGED <<recordFiles, synthesized>>
          \/ /\ spc = "cards"
             /\ idx <= Len(PageItems(pageNumber))
             /\ ~AlreadyScraped(jobId, existingJobIds)
             /\ recordFiles' = writeJobFile(jobId, "torn", recordFiles)
             /\ synthesized' = IF item = NoLink THEN synthesized + 1
                               ELSE synthesized
    /\ existingJobIds' = {}
    /\ jobs' = <<>>
    /\ pageNumber' = 1
    /\ hasMorePages' = TRUE
    /\ skippedCount' = 0
    /\ idx' = 1
    /\ written' = <<>>
    /\ caught' = 0
    /\ noDetails' = 0
    /\ lastControl' = "none"
    /\ loginModal' = FALSE
    /\ currentUrl' = "none"
    /\ afterClean' = FALSE
    /\ UNCHANGED <<listing, scrapes>>

ScraperNext ==
    \/ ScrapeStart
    \/ LoadPage
    \/ ProcessCard
    \/ Paginate
    \/ ScrapeKill

\* ------------------------------------------------------- scraper: claims
InScrape == {"page", "cards", "done", "halted"}

AllLinked ==
    \A p \in 1..Len(listing) : \A j \in 1..Len(listing[p]) : listing[p][j] # NoLink

\* C7 as stated: a run that follows a complete run over the same listing (one
\* that saved or skipped every item) yields no new record.
C7_SecondRunNothingNew ==
    (afterClean /\ spc \in InScrape) => (jobs = <<>> /\ written = <<>>)

\* C7 amended: when every list item carries a /jobs/view/<digits> link, a run
\* that follows a complete run over the same listing pushes no posting and
\* writes no file, and at its end every item whose click did not fail has been
\* counted as skipped.
C7_KnownLinksSkipped ==
    (afterClean /\ AllLinked /\ spc \in InScrape) =>
        /\ jobs = <<>>
        /\ written = <<>>
        /\ spc = "done" => skippedCount + caught = TotalItems

\* A second run over a two-page listing of linked items has ended, all skipped.
C7_Witness ==
    /\ afterClean
    /\ AllLinked
    /\ spc = "done"
    /\ Len(listing) >= 2
    /\ skippedCount = TotalItems
    /\ skippedCount >= 2

\* C8: the page loop ends (hasMorePages is false) exactly when the next-page
\* control found is absent or disabled, which is at the last of the listing's
\* P pages, no page beyond it being processed; a run ends in done only with
\* the loop ended (after the loop the run still writes _summary.json, and ends
\* in the outer catch when that write throws).
C8_LoopEndsAtLastPage ==
    /\ pageNumber <= Len(listing)
    /\ spc \in InScrape =>
         (~hasMorePages <=> (lastControl \in {"absent", "disabled"}))
    /\ ~hasMorePages => (pageNumber = Len(listing) /\ spc \in {"done", "halted"})
    /\ spc = "done" => ~hasMorePages

\* A two-page traversal has ended on a disabled control.
C8_Witness ==
    /\ spc = "done"
    /\ pageNumber = 2
    /\ lastControl = "disabled"

NoRepeat(seq) == \A p, q \in 1..Len(seq) : p # q => seq[p] # seq[q]

\* C10: in a run with no failed step, no record file is written twice, none
\* that existed at the start is written, and at the end the postings counted
\* are as many as the identifiers added to the directory.
C10_WrittenOnce ==
    (caught = 0 /\ spc \in {"page", "cards", "done"}) =>
        /\ NoRepeat(written)
        /\ \A j \in 1..Len(written) : written[j] \notin existingJobIds
        /\ spc = "done" => Len(jobs) = Cardinality(recordFiles \ existingJobIds)

AuthSigns == loginModal \/ currentUrl \in {"checkpoint", "login", "authwall"}

\* C13: a run whose page shows the login modal, or whose URL contains
\* checkpoint, login or authwall, is halted with no list item activated and no
\* record file written.
C13_AuthWallHalts ==
    AuthSigns =>
        /\ spc = "halted"
        /\ pageNumber = 1
        /\ idx = 1
        /\ jobs = <<>>
        /\ written = <<>>
        /\ skippedCount = 0
        /\ caught = 0
        /\ noDetails = 0
        /\ recordFiles = existingJobIds

\* A run over a listing with items has halted on the login modal, the URL
\* being the listing's.
C13_Witness ==
    /\ spc = "halted"
    /\ loginModal
    /\ currentUrl = "jobs"
    /\ TotalItems >= 1

\* C14: a failure of a step of one list item leaves the run in the card loop,
\* at the next item of the same page; the run is halted from the card loop
\* only by the pagination step, after the page's last item.
C14_ItemFailureContinues ==
    [][/\ caught' > caught
          => (spc' = "cards" /\ idx' = idx + 1 /\ pageNumber' = pageNumber)
       /\ (spc = "cards" /\ spc' = "halted")
          => idx > Len(PageItems(pageNumber))]_vars

\* An item of page 1 failed, the run went on to page 2, saved its item and
\* ended at the last page.
C14_Witness ==
    /\ spc = "done"
    /\ caught = 1
    /\ pageNumber = 2
    /\ Len(written) = 1

\* C15: every file this run has written is in the directory, and while no
\* item has failed every posting pushed to jobs has its file there: in the
\* card loop after each item, when the traversal has ended, and when the list
\* did not show after the click on the next-page control.
C15_SavedBeforeNext ==
    spc \in InScrape =>
        /\ Range(written) \subseteq recordFiles
        /\ caught = 0 => Range(jobs) \subseteq recordFiles

\* The list did not show after the click on page 1's next-page control; the
\* item page 1 yielded is in the directory.
C15_Witness ==
    /\ spc = "halted"
    /\ lastControl = "enabled"
    /\ pageNumber = 1
    /\ caught = 0
    /\ Len(jobs) = 1
    /\ jobs[1] \in recordFiles \ existingJobIds

\* C18: an item whose wait for the details panel timed out (and whose
\* identifier is new) adds no posting and no file, and the run stays in the
\* card loop at the next item.
C18_NoPanelSkipped ==
    [][noDetails' > noDetails
       => /\ jobs' = jobs
          /\ written' = written
          /\ recordFiles' = recordFiles
          /\ spc' = "cards"
          /\ idx' = idx + 1]_vars

\* C19: a pass of the card loop over an item whose link identifier was in the
\* directory when the run started, the click not failing, adds one to
\* skippedCount, pushes no posting and writes no file.
C19_KnownItemSkipped ==
    [][(/\ spc = "cards"
        /\ idx <= Len(PageItems(pageNumber))
        /\ idx' = idx + 1
        /\ PageItems(pageNumber)[idx] \in existingJobIds
        /\ caught' = caught)
       => /\ skippedCount' = skippedCount + 1
          /\ jobs' = jobs
          /\ written' = written
          /\ recordFiles' = recordFiles
          /\ noDetails' = noDetails]_vars

\* A run that found files in the directory has skipped an item and written
\* nothing.
C19_Witness ==
    /\ spc = "cards"
    /\ skippedCount >= 1
    /\ existingJobIds # {}
    /\ written = <<>>
    /\ recordFiles = existingJobIds

\* C23: when a traversal has ended, every item of the listing is counted once
\* among the postings saved (jobs.length), the items skipped (skippedCount)
\* and the items that ended in the per-item catch.
C23_CountsCoverItems ==
    spc = "done" => Len(jobs) + skippedCount + caught = TotalItems

\* -------------------------------------------------------------- autoScroll
\* linkedin-scraper.ts:415
distance == 100

ScrollIdle ==
    /\ resultsContainer = FALSE
    /\ scrollHeight = 0
    /\ totalHeight = 0
    /\ timer = "cleared"

\* autoScroll() is entered: with no container the promise is never created;
\* with one, totalHeight is 0 and the interval timer is set.
ScrollInit ==
    /\ resultsContainer \in BOOLEAN
    /\ scrollHeight \in 0..MaxScrollHeight
    /\ ~resultsContainer => scrollHeight = 0
    /\ totalHeight = 0
    /\ timer = IF resultsContainer THEN "running" ELSE "cleared"

\* An end test that is met by the first step.
ScrollDone_afterOne(total, height) == total > 0

\* linkedin-scraper.ts:421: totalHeight >= scrollHeight
ScrollDone(total, height) == total >= height

\* One firing of the interval (linkedin-scraper.ts:416-425): scrollHeight is
\* read, the container scrolled by distance, totalHeight advanced; the timer
\* is cleared and the promise resolved when the end test is met.
ScrollTick ==
    /\ UNCHANGED <<avars, svars, dirvars>>
    /\ timer = "running"
    /\ totalHeight' = totalHeight + distance
    /\ timer' = IF ScrollDone(totalHeight + distance, scrollHeight)
                THEN "cleared" ELSE "running"
    /\ UNCHANGED <<resultsContainer, scrollHeight>>

\* Between two firings the page loads more cards and the container grows.
ScrollGrow ==
    /\ UNCHANGED <<avars, svars, dirvars>>
    /\ timer = "running"
    /\ \E h \in (scrollHeight + 1)..MaxScrollHeight : scrollHeight' = h
    /\ UNCHANGED <<resultsContainer, totalHeight, timer>>

ScrollNext ==
    \/ ScrollTick
    \/ ScrollGrow

\* C25: the interval is cleared only by a firing that leaves totalHeight at or
\* above the scrollHeight it read, and once scrollHeight has stopped growing
\* the interval is cleared in the end.
C25_ScrollTerminates ==
    /\ [][(timer = "running" /\ timer' = "cleared")
          => totalHeight' >= scrollHeight]_vars
    /\ (<>[][scrollHeight' = scrollHeight]_vars) => <>(timer = "cleared")

\* The container grew to 350 pixels while it was scrolled; the fourth firing
\* cleared the timer.
C25_Witness ==
    /\ resultsContainer
    /\ timer = "cleared"
    /\ scrollHeight = 350
    /\ totalHeight = 400

\* ------------------------------------------------- the record directories
\* A path is its segments from the root; a JOB_POSTINGS_DIR value is absolute
\* or relative, and may hold "..".
Segments == {"job-postings", "data", ".."}

Dirs == { <<"app">>, <<"app", "src">> }

EnvUnset == [set |-> FALSE, abs |-> FALSE, segs |-> <<>>]

EnvValues ==
    {EnvUnset} \cup
    UNION { { [set |-> TRUE, abs |-> a, segs |-> p] :
                a \in BOOLEAN, p \in [1..n -> Segments] } : n \in 0..MaxPathLen }

NoDir == [set |-> FALSE, path |-> <<>>]

DirIdle ==
    /\ envDir = EnvUnset
    /\ cwd = <<>>
    /\ dirname = <<>>
    /\ outputDir = NoDir
    /\ jobPostingsDir = NoDir

DirInit ==
    /\ envDir \in EnvValues
    /\ cwd \in Dirs
    /\ dirname \in Dirs
    /\ outputDir = NoDir
    /\ jobPostingsDir = NoDir

\* Path normalisation: ".." drops the segment before it (none at the root).
RECURSIVE Normalize(_, _)
Normalize(done, rest) ==
    IF rest = <<>> THEN done
    ELSE IF Head(rest) = ".."
         THEN Normalize(IF done = <<>> THEN <<>> ELSE SubSeq(done, 1, Len(done) - 1),
                        Tail(rest))
         ELSE Normalize(Append(done, Head(rest)), Tail(rest))

\* path.join(base, ...segs) for an absolute base
pathJoin(base, segs) == Normalize(<<>>, base \o segs)

\* path.resolve(value) in the working directory dir
pathResolve(dir, value) ==
    IF value.abs THEN Normalize(<<>>, value.segs)
    ELSE Normalize(<<>>, dir \o value.segs)

\* process.env.JOB_POSTINGS_DIR ? ... : ... (the empty string is falsy)
EnvGiven(value) == value.set /\ (value.abs \/ value.segs # <<>>)

\* linkedin-scraper.ts:22-24
OutputDirOf(value, dir, scriptDir) ==
    IF EnvGiven(value) THEN pathResolve(dir, value)
    ELSE pathJoin(scriptDir, <<"..", "job-postings">>)

\* part_000:122-124
JobPostingsDirOf(value, dir, scriptDir) ==
    IF EnvGiven(value) THEN pathResolve(dir, value)
    ELSE pathJoin(scriptDir, <<"job-postings">>)

\* The scraper computes the directory it writes the record files to.
ScraperResolves ==
    /\ UNCHANGED <<avars, svars, scrollvars>>
    /\ ~outputDir.set
    /\ outputDir' = [set |-> TRUE, path |-> OutputDirOf(envDir, cwd, dirname)]
    /\ UNCHANGED <<envDir, cwd, dirname, jobPostingsDir>>

\* The analyzer computes the directory it lists the record files of.
AnalyzerResolves ==
    /\ UNCHANGED <<avars, svars, scrollvars>>
    /\ ~jobPostingsDir.set
    /\ jobPostingsDir' =
         [set |-> TRUE, path |-> JobPostingsDirOf(envDir, cwd, dirname)]
    /\ UNCHANGED <<envDir, cwd, dirname, outputDir>>

DirNext ==
    \/ ScraperResolves
    \/ AnalyzerResolves

\* C28: under one setting of JOB_POSTINGS_DIR, set or not, the directory the
\* analyzer lists is the directory the scraper writes to.
C28_SameDirectory ==
    (outputDir.set /\ jobPostingsDir.set) => outputDir.path = jobPostingsDir.path

\* ------------------------------------------------------ the specifications
\* The analyzer, over a directory the scraper is not writing to.
Init ==
    /\ AInit
    /\ SIdleInit
    /\ listing = <<(<<>>)>>
    /\ ScrollIdle
    /\ DirIdle

Spec == Init /\ [][Next]_vars

\* The scraper, over any listing of at most MaxItems items.
ScraperInit ==
    /\ SInit
    /\ AInit
    /\ ScrollIdle
    /\ DirIdle

ScraperSpec == ScraperInit /\ [][ScraperNext]_vars

\* autoScroll over any container of at most MaxScrollHeight pixels. The
\* interval timer fires every 100 ms for as long as it is set.
ScrollSpecInit ==
    /\ ScrollInit
    /\ AInit
    /\ SIdleInit
    /\ listing = <<(<<>>)>>
    /\ DirIdle

ScrollSpec == ScrollSpecInit /\ [][ScrollNext]_vars /\ WF_vars(ScrollTick)

\* The two programs under one environment.
DirSpecInit ==
    /\ DirInit
    /\ AInit
    /\ SIdleInit
    /\ listing = <<(<<>>)>>
    /\ ScrollIdle

DirSpec == DirSpecInit /\ [][DirNext]_vars

\* The answers of the items a run has committed so far: each carried a status
\* (it got past 271-277); its score is in range, out of range, or missing.
CommittedResults ==
    { [suitability_status |-> "suitable", match_score |-> 9],
      [suitability_status |-> "not_suitable", match_score |-> 2],
      [suitability_status |-> "suitable", match_score |-> 11],
      [suitability_status |-> "maybe_suitable"] }

\* A first run over at most MaxLedger record files, the Ledger empty when it
\* started, about to take up its last item: every earlier item was answered,
\* put in the cache in work-set order (263) and saved (277), so results.json
\* is what the last of those saves wrote.
LedgerInit ==
    \E m \in 0..(MaxLedger - 1) : \E answers \in [1..m -> CommittedResults] :
        LET committed == [j \in 1..m |-> AnalysisRecord(j, answers[j])]
        IN /\ jobPostings = 1..(m + 1)
           /\ jobsToAnalyze = [j \in 1..(m + 1) |-> j]
           /\ cache = committed
           /\ resultsFile = IF m = 0 THEN NoFile
                            ELSE saveAnalysisCache(committed, NoFile)
           /\ calls = [j \in 1..m |-> j]
           /\ i = m + 1
           /\ successCount = m
           /\ nCommitted = m
           /\ pc = "loop"
           /\ summaryFile = NoReport
           /\ topMatchesFile = NoTopMatches
           /\ errorCount = 0
           /\ runNo = 1
           /\ ledgerAtStart = {}
           /\ catchItems = {}
           /\ lastKill = NoKill
           /\ resumeOf = NoKill
           /\ resumeRead = "text"

LedgerSpecInit ==
    /\ LedgerInit
    /\ SIdleInit
    /\ listing = <<(<<>>)>>
    /\ ScrollIdle
    /\ DirIdle

LedgerNext == AnalyzeItem

LedgerSpec == LedgerSpecInit /\ [][LedgerNext]_vars

====
